---- MODULE Spec2Model ----
(***************************************************************************)
(* Model of the moltworker WebSocket front: the /ws route of               *)
(* src/routes/websocket.ts (upgrade check, gateway readiness, backend      *)
(* connection, relay handlers, error translation) together with the        *)
(* gateway lifecycle manager it calls (src/gateway, modelled from the      *)
(* specification, sections 4.1 and 4.2).                                   *)
(*                                                                         *)
(* Strings that the code searches, measures, slices or builds (error       *)
(* messages, hosts, close reasons, the Upgrade header) are sequences of    *)
(* characters: includes is a search for a contiguous sub-sequence, length  *)
(* is Len, a template literal is concatenation.  Strings the code only     *)
(* passes along are TLA+ strings.  An optional value (T | null) is the     *)
(* empty sequence or <<value>>.                                            *)
(***************************************************************************)
EXTENDS Integers, Sequences, FiniteSets, TLC

\* ------------------------------------------------------------------ bounds
NumReq == 2
MaxAttempts == 2
MaxFrames == 2

Req == 1..NumReq

\* ------------------------------------------------------------- optionals
None == <<>>
Some(x) == <<x>>

\* ---------------------------------------------------------------- strings
\* message.includes(phrase)
Includes(message, phrase) ==
  \E i \in 1..(Len(message) - Len(phrase) + 1) :
    SubSeq(message, i, i + Len(phrase) - 1) = phrase

\* 'gateway token missing'
GatewayTokenMissing ==
  <<"g", "a", "t", "e", "w", "a", "y", " ", "t", "o", "k", "e", "n", " ",
    "m", "i", "s", "s", "i", "n", "g">>

\* 'gateway token mismatch'
GatewayTokenMismatch ==
  <<"g", "a", "t", "e", "w", "a", "y", " ", "t", "o", "k", "e", "n", " ",
    "m", "i", "s", "m", "a", "t", "c", "h">>

\* 'pairing required'
PairingRequired ==
  <<"p", "a", "i", "r", "i", "n", "g", " ", "r", "e", "q", "u", "i", "r",
    "e", "d">>

\* 'Invalid or missing token. Visit https://'
InvalidTokenPrefix ==
  <<"I", "n", "v", "a", "l", "i", "d", " ", "o", "r", " ", "m", "i", "s",
    "s", "i", "n", "g", " ", "t", "o", "k", "e", "n", ".", " ", "V", "i",
    "s", "i", "t", " ", "h", "t", "t", "p", "s", ":", "/", "/">>

\* '?token={REPLACE_WITH_YOUR_TOKEN}'
InvalidTokenSuffix ==
  <<"?", "t", "o", "k", "e", "n", "=", "{", "R", "E", "P", "L", "A", "C",
    "E", "_", "W", "I", "T", "H", "_", "Y", "O", "U", "R", "_", "T", "O",
    "K", "E", "N", "}">>

\* 'Pairing required. Visit https://'
PairingPrefix ==
  <<"P", "a", "i", "r", "i", "n", "g", " ", "r", "e", "q", "u", "i", "r",
    "e", "d", ".", " ", "V", "i", "s", "i", "t", " ", "h", "t", "t", "p",
    "s", ":", "/", "/">>

\* '/_admin/'
PairingSuffix ==
  <<"/", "_", "a", "d", "m", "i", "n", "/">>

\* `Invalid or missing token. Visit https://${host}?token={REPLACE_WITH_YOUR_TOKEN}`
InvalidTokenText(host) == InvalidTokenPrefix \o host \o InvalidTokenSuffix

\* `Pairing required. Visit https://${host}/_admin/`
PairingText(host) == PairingPrefix \o host \o PairingSuffix

\* Variant: the two tests in the other order.
transformErrorMessage_swapped(message, host) ==
  IF Includes(message, PairingRequired)
    THEN PairingText(host)
    ELSE IF Includes(message, GatewayTokenMissing)
              \/ Includes(message, GatewayTokenMismatch)
           THEN InvalidTokenText(host)
           ELSE message

transformErrorMessage(message, host) ==
  IF Includes(message, GatewayTokenMissing)
       \/ Includes(message, GatewayTokenMismatch)
    THEN InvalidTokenText(host)
    ELSE IF Includes(message, PairingRequired)
           THEN PairingText(host)
           ELSE message

\* ----------------------------------------------------------- HTTP request
\* request.headers.get('Upgrade'): null when the header is absent, else the
\* header's characters.
NullHeader == <<"<null>">>

\* 'websocket'
HdrWebsocket ==
  <<"w", "e", "b", "s", "o", "c", "k", "e", "t">>

\* 'WebSocket'
HdrWebSocketMixed ==
  <<"W", "e", "b", "S", "o", "c", "k", "e", "t">>

\* 'h2c'
HdrH2c ==
  <<"h", "2", "c">>

UpgradeValues == {NullHeader, HdrWebsocket, HdrWebSocketMixed, HdrH2c}

LowerChar(c) ==
  CASE c = "A" -> "a"
    [] c = "B" -> "b"
    [] c = "C" -> "c"
    [] c = "D" -> "d"
    [] c = "E" -> "e"
    [] c = "F" -> "f"
    [] c = "G" -> "g"
    [] c = "H" -> "h"
    [] c = "I" -> "i"
    [] c = "J" -> "j"
    [] c = "K" -> "k"
    [] c = "L" -> "l"
    [] c = "M" -> "m"
    [] c = "N" -> "n"
    [] c = "O" -> "o"
    [] c = "P" -> "p"
    [] c = "Q" -> "q"
    [] c = "R" -> "r"
    [] c = "S" -> "s"
    [] c = "T" -> "t"
    [] c = "U" -> "u"
    [] c = "V" -> "v"
    [] c = "W" -> "w"
    [] c = "X" -> "x"
    [] c = "Y" -> "y"
    [] c = "Z" -> "z"
    [] OTHER -> c

\* String.prototype.toLowerCase
ToLowerCase(s) == [i \in 1..Len(s) |-> LowerChar(s[i])]

\* Variant: no upgrade check.
isWebSocketRequest_nocheck(upgradeHeader) == TRUE

\* request.headers.get('Upgrade')?.toLowerCase() === 'websocket'
isWebSocketRequest(upgradeHeader) ==
  /\ upgradeHeader # NullHeader
  /\ ToLowerCase(upgradeHeader) = HdrWebsocket

\* url.host of the requests; the route itself never reads it before the relay.
\* 'example.com'
HostExample ==
  <<"e", "x", "a", "m", "p", "l", "e", ".", "c", "o", "m">>

\* 'h'
HostH ==
  <<"h">>

Hosts == {HostExample, HostH}

\* --------------------------------------------------------------- responses
NoResponse == [status |-> 0]

\* c.json(body, status)
Json(body, status) ==
  [status |-> status, contentType |-> "application/json", body |-> body,
   webSocket |-> None]

UpgradeRequiredResponse ==
  Json([error |-> "WebSocket upgrade required"], 426)

\* error instanceof Error ? error.message : 'Unknown error'
errorMessage(error) ==
  IF error.isError THEN error.message ELSE "Unknown error"

\* Variant: the failure's message is not passed on.
StartFailureResponse_nodetails(error) ==
  Json([error |-> "Moltbot gateway failed to start",
        details |-> "Unknown error"], 503)

StartFailureResponse(error) ==
  Json([error |-> "Moltbot gateway failed to start",
        details |-> errorMessage(error)], 503)

\* new Response(null, { status: 101, webSocket: clientWs })
SwitchingProtocols(r) ==
  [status |-> 101, contentType |-> "", body |-> [empty |-> TRUE],
   webSocket |-> Some([pairOf |-> r])]

\* What sandbox.wsConnect can answer: an upgraded response carrying the
\* backend socket, or a plain response without one.
BackendSocket(r) == [backendOf |-> r]

ContainerResponses(r) ==
  { [status |-> 101, contentType |-> "", body |-> [empty |-> TRUE],
     webSocket |-> Some(BackendSocket(r))],
    [status |-> 500, contentType |-> "text/plain", body |-> [raw |-> "boom"],
     webSocket |-> None] }

\* Variant: the backend's response is replaced by one of the route's own.
FallbackResponse_rewrapped(containerResponse) ==
  Json([error |-> "Bad gateway"], 502)

\* return containerResponse
FallbackResponse(containerResponse) == containerResponse

\* ------------------------------------------------------ process supervisor
\* (sandbox primitives, specification section 4.1)
Statuses == {"starting", "running", "completed", "failed"}

\* list(): the snapshot of the gateway's processes, newest first.  procs is
\* kept in start order, a process's identifier is its position in procs.
RECURSIVE ListFrom(_, _)
ListFrom(ps, i) ==
  IF i = 0 THEN <<>>
  ELSE <<[id |-> i, status |-> ps[i]]>> \o ListFrom(ps, i - 1)

listProcesses(ps) == ListFrom(ps, Len(ps))

\* find(predicate) with the gateway's command signature: the first match of
\* the snapshot, or none.
findExistingMoltbotProcess(ps) ==
  IF listProcesses(ps) = <<>> THEN None ELSE Some(Head(listProcesses(ps)))

\* start(command): the status of the new handle, or the sandbox's rejection.
StartResults == {"starting", "running", "SpawnError"}

\* ------------------------------------------------------------- the sockets
\* A socket endpoint of the runtime: whether it exists, whether accept() has
\* been called, whether a close frame has come in or gone out, whether the
\* transport has failed.
NoSocket ==
  [exists |-> FALSE, accepted |-> FALSE, closedIncoming |-> FALSE,
   closedOutgoing |-> FALSE, errored |-> FALSE]

NewSocket == [NoSocket EXCEPT !.exists = TRUE]

\* ws.accept()
Accept(ws) == [ws EXCEPT !.accepted = TRUE]

\* ws.readyState
ReadyState(ws) ==
  IF ws.errored \/ (ws.closedIncoming /\ ws.closedOutgoing)
    THEN "CLOSED"
    ELSE IF ws.closedIncoming \/ ws.closedOutgoing
           THEN "CLOSING"
           ELSE "OPEN"

\* ws.close(code, reason): a no-op on an endpoint whose close frame has gone
\* out or whose transport is gone.
CloseTakesEffect(ws) == ~ws.closedOutgoing /\ ~ws.errored

\* Close codes ws.close() refuses on the Workers runtime: those outside
\* 1000..4999 and those reserved for what an endpoint reports itself (1005 no
\* status received, 1006 abnormal closure, 1004, 1015).
ReservedCloseCodes == {1004, 1005, 1006, 1015}

ValidCloseCode(code) ==
  code >= 1000 /\ code < 5000 /\ code \notin ReservedCloseCodes

\* What ws.close(code, reason) does: nothing on an endpoint that takes no
\* close any more; otherwise it throws a TypeError for a code it refuses and
\* queues the close frame for a code it accepts.
CloseOutcome(ws, code) ==
  IF ~CloseTakesEffect(ws)
    THEN "ignored"
    ELSE IF ValidCloseCode(code) THEN "closed" ELSE "TypeError"

Close(ws, code) ==
  IF CloseOutcome(ws, code) = "closed"
    THEN [ws EXCEPT !.closedOutgoing = TRUE]
    ELSE ws

\* An endpoint delivers message and error events to its listeners once
\* accepted and until its close frame has come in or its transport has
\* failed.
Delivers(ws) ==
  ws.exists /\ ws.accepted /\ ~ws.closedIncoming /\ ~ws.errored

\* A close event is delivered once: it may be the peer's close frame or the
\* report that follows a transport failure.
DeliversClose(ws) ==
  ws.exists /\ ws.accepted /\ ~ws.closedIncoming

AllListeners ==
  {<<"serverWs", "message">>, <<"containerWs", "message">>,
   <<"serverWs", "close">>, <<"containerWs", "close">>,
   <<"serverWs", "error">>, <<"containerWs", "error">>}

\* Variant: containerWs.accept() is left out.
SessionSetup_oneAccept(containerSocket) ==
  [serverWs |-> Accept(NewSocket),
   containerWs |-> containerSocket,
   listeners |-> AllListeners]

\* new WebSocketPair(); serverWs.accept(); containerWs.accept(); the six
\* addEventListener calls.
SessionSetup(containerSocket) ==
  [serverWs |-> Accept(NewSocket),
   containerWs |-> Accept(containerSocket),
   listeners |-> AllListeners]

\* -------------------------------------------------------------------- JSON
\* A text frame's data is a serialization: a layout (how it is spaced) and
\* the document it spells, numbers as the literals written.  A text that is
\* no JSON spells the document Invalid.  A JavaScript value has the same
\* shape, with numbers as the shortest literal of their double.
Undefined == [t |-> "undefined"]
JNull == [t |-> "null"]
JNum(literal) == [t |-> "num", v |-> literal]
JStr(chars) == [t |-> "str", v |-> chars]
JObj(pairs) == [t |-> "obj", v |-> pairs]
Invalid == [t |-> "invalid"]

\* The double a number literal denotes, as JavaScript prints it.
NumberValue(literal) ==
  CASE literal = "12345678901234567890" -> "12345678901234567000"
    [] literal = "1.0" -> "1"
    [] OTHER -> literal

RECURSIVE ToJs(_)
ToJs(doc) ==
  CASE doc.t = "num" -> JNum(NumberValue(doc.v))
    [] doc.t = "obj" ->
         JObj([i \in 1..Len(doc.v) |-> <<doc.v[i][1], ToJs(doc.v[i][2])>>])
    [] OTHER -> doc

\* JSON.parse(text): throws on a text that is no JSON.
JSONparse(text) ==
  IF text.doc = Invalid
    THEN [threw |-> TRUE, value |-> Undefined]
    ELSE [threw |-> FALSE, value |-> ToJs(text.doc)]

\* JSON.stringify(value): the compact serialization.
JSONstringify(value) == [layout |-> "compact", doc |-> value]

HasKey(value, key) ==
  value.t = "obj" /\ \E i \in 1..Len(value.v) : value.v[i][1] = key

\* value[key], undefined on a primitive or a missing key.
Get(value, key) ==
  IF HasKey(value, key)
    THEN value.v[CHOOSE i \in 1..Len(value.v) : value.v[i][1] = key][2]
    ELSE Undefined

\* value[key] = x on an object that has the key.
Put(value, key, x) ==
  JObj([i \in 1..Len(value.v) |->
         IF value.v[i][1] = key THEN <<key, x>> ELSE value.v[i]])

\* The truthiness of a value.
Truthy(value) ==
  CASE value.t \in {"undefined", "null"} -> FALSE
    [] value.t = "str" -> value.v # <<>>
    [] value.t = "num" -> value.v # "0"
    [] OTHER -> TRUE

\* -------------------------------------------------------- relay handlers
TextFrame(layout, doc) ==
  [type |-> "string", text |-> [layout |-> layout, doc |-> doc]]
BinaryFrame(bytes) == [type |-> "binary", bytes |-> bytes]

\* Variant: every text that parses is serialized again.
InterceptedData_alwaysReserialize(data, host) ==
  IF data.type # "string" \/ JSONparse(data.text).threw
    THEN data
    ELSE [type |-> "string", text |-> JSONstringify(JSONparse(data.text).value)]

\* Lines 102-118: what the backend's frame becomes.  A binary frame, a text
\* that does not parse, a parsed null (reading .error throws, caught), a
\* falsy error.message and a truthy error.message without includes (throws,
\* caught) leave data as received; otherwise error.message is replaced and
\* the parsed value is serialized again.
InterceptedData(data, host) ==
  IF data.type # "string" \/ JSONparse(data.text).threw
    THEN data
    ELSE LET parsed == JSONparse(data.text).value
             error == Get(parsed, "error")
             message == Get(error, "message") IN
         IF Truthy(message) /\ message.t = "str"
           THEN [type |-> "string",
                 text |-> JSONstringify(
                   Put(parsed, "error",
                       Put(error, "message",
                           JStr(transformErrorMessage(message.v, host)))))]
           ELSE data

\* Variant: the frame is sent whatever the client endpoint's state.
containerMessageSends_noStateCheck(data, host, serverState) ==
  <<InterceptedData(data, host)>>

\* Lines 100-125: the frames the backend's message handler sends the client.
containerMessageSends(data, host, serverState) ==
  IF serverState = "OPEN" THEN <<InterceptedData(data, host)>> ELSE <<>>

\* Variant: an open backend endpoint is sent the frame twice.
serverMessageSends_twice(data, containerState) ==
  IF containerState = "OPEN" THEN <<data, data>> ELSE <<>>

\* Lines 90-97: the frames the client's message handler sends the backend.
serverMessageSends(data, containerState) ==
  IF containerState = "OPEN" THEN <<data>> ELSE <<>>

MaxReasonLength == 123
KeptReasonLength == 120

\* '...'
Ellipsis == <<".", ".", ".">>

\* reason.slice(0, n)
Slice(chars, n) == SubSeq(chars, 1, IF n < Len(chars) THEN n ELSE Len(chars))

\* Lines 136-139: the reason the client endpoint is closed with.
\* Variant: the reason is cut to size first and translated afterwards.
containerCloseReason_truncateFirst(reason, host) ==
  transformErrorMessage(
    IF Len(reason) > MaxReasonLength
      THEN Slice(reason, KeptReasonLength) \o Ellipsis
      ELSE reason,
    host)

containerCloseReason(reason, host) ==
  LET translated == transformErrorMessage(reason, host) IN
  IF Len(translated) > MaxReasonLength
    THEN Slice(translated, KeptReasonLength) \o Ellipsis
    ELSE translated

\* Variant: the error handlers close with 1001.
AbnormalClosure_goingAway == 1011 - 10

AbnormalClosure == 1011

\* 'Client error'
ClientErrorReason ==
  <<"C", "l", "i", "e", "n", "t", " ", "e", "r", "r", "o", "r">>

\* 'Container error'
ContainerErrorReason ==
  <<"C", "o", "n", "t", "a", "i", "n", "e", "r", " ", "e", "r", "r", "o",
    "r">>

\* 'bye'
ReasonBye ==
  <<"b", "y", "e">>

NoDelivery == [frame |-> [type |-> "none"], state |-> "NONE", sent |-> <<>>]

\* ------------------------------------------------------------------- state
VARIABLES
  pc,                \* where each request's handler stands
  upgrade,           \* the request's Upgrade header
  host,              \* url.host of the request
  response,          \* the response the route returned, NoResponse before
  existingProcess,   \* the lookup's answer (line 47)
  containerResponse, \* what sandbox.wsConnect answered (line 66)
  did,               \* the calls the request has made so far
  ready,             \* how and on which status readiness was decided
  procs,             \* status of every gateway process started, in order
  attempts,          \* the lifecycle manager's start attempts
  joined,            \* the attempt a caller of ensureRunning awaits
  inFlightAtCall,    \* the attempts outstanding when the caller called
  polls,             \* polls made by the owner of an attempt
  serverWs,          \* the relay's client-facing endpoint
  containerWs,       \* the relay's backend-facing endpoint
  listeners,         \* the listeners registered on the two endpoints
  lastC2B,           \* the last client frame handled and what was sent on
  lastB2C,           \* the last backend frame handled and what was sent on
  closeCalls,        \* the close() calls the relay has made, in order
  c2bLog,            \* client frames handled and frames sent to the backend
  b2cLog,            \* backend frames handled and frames sent to the client
  xlate,             \* one application of transformErrorMessage
  closing,           \* one computation of a backend close's reason
  wait               \* one request to a debug route that waits for a process

routeVars == <<pc, upgrade, host, response, existingProcess,
               containerResponse, did, ready>>
gatewayVars == <<procs, attempts, joined, inFlightAtCall, polls>>
socketVars == <<serverWs, containerWs, listeners>>
relayVars == <<lastC2B, lastB2C, closeCalls, c2bLog, b2cLog, xlate, closing,
               wait>>
vars == <<routeVars, gatewayVars, socketVars, relayVars>>

NotReady == [via |-> "none", status |-> "none"]

\* The state before any of the requests R has arrived.
InitOver(R) ==
  /\ pc = [r \in R |-> "new"]
  /\ upgrade = [r \in R |-> NullHeader]
  /\ host = [r \in R |-> <<>>]
  /\ response = [r \in R |-> NoResponse]
  /\ existingProcess = [r \in R |-> None]
  /\ containerResponse = [r \in R |-> NoResponse]
  /\ did = [r \in R |-> {}]
  /\ ready = [r \in R |-> NotReady]
  /\ procs = <<>>
  /\ attempts = <<>>
  /\ joined = [r \in R |-> 0]
  /\ inFlightAtCall = [r \in R |-> {}]
  /\ polls = [r \in R |-> 0]
  /\ serverWs = [r \in R |-> NoSocket]
  /\ containerWs = [r \in R |-> NoSocket]
  /\ listeners = [r \in R |-> {}]
  /\ lastC2B = [r \in R |-> NoDelivery]
  /\ lastB2C = [r \in R |-> NoDelivery]
  /\ closeCalls = [r \in R |-> <<>>]

NoXlate == [message |-> <<>>, host |-> <<>>, result |-> <<>>, done |-> FALSE]

\* No request to a debug route yet.
NoWait ==
  [route |-> "none", pc |-> "idle", command |-> "",
   timeoutSecs |-> [nan |-> FALSE, n |-> 0],
   maxAttempts |-> [nan |-> FALSE, n |-> 0], interval |-> 0,
   attempts |-> 0, polls |-> 0, elapsed |-> 0, status |-> "none",
   exitCode |-> None, observed |-> "none", response |-> NoResponse]

NoClosing == [reason |-> <<>>, host |-> <<>>, passed |-> <<>>, done |-> FALSE]

\* The frames a session's message handlers were handed and the frames they
\* sent on, in order; kept for the sessions under observation only.
NoLog == [observed |-> FALSE, received |-> <<>>, forwarded |-> <<>>]
EmptyLog == [observed |-> TRUE, received |-> <<>>, forwarded |-> <<>>]

Logged(log, frame, sent) ==
  IF log.observed
    THEN [log EXCEPT !.received = Append(@, frame), !.forwarded = @ \o sent]
    ELSE log

InitLogs(R, log) ==
  /\ c2bLog = [r \in R |-> log]
  /\ b2cLog = [r \in R |-> log]

Init ==
  InitOver(Req) /\ InitLogs(Req, NoLog) /\ xlate = NoXlate /\ closing = NoClosing
    /\ wait = NoWait

\* --------------------------------------------- gateway lifecycle manager
\* (src/gateway, specification sections 4.2, 5 and 9)
Pending == None

StartError(message) == [isError |-> TRUE, message |-> message]
NoError == [isError |-> TRUE, message |-> ""]

Returned(status) == [ok |-> TRUE, status |-> status, error |-> NoError]
Raised(status, message) ==
  [ok |-> FALSE, status |-> status, error |-> StartError(message)]

\* Variant: no deduplication of starts in flight.
InFlight_none(as) == 0

\* The start attempt whose result is still outstanding, 0 when there is none.
InFlight(as) ==
  IF \E a \in 1..Len(as) : as[a].result = Pending
    THEN CHOOSE a \in 1..Len(as) : as[a].result = Pending
    ELSE 0

\* logs(process): what the process wrote, as the supervisor captured it.
logs(i) == [stdout |-> <<"stdout", i>>, stderr |-> <<"stderr", i>>]

\* GatewayStartError{details}
GatewayStartError(status, output) ==
  [isError |-> TRUE, message |-> "GatewayStartError: process " \o status,
   details |-> output]

\* Variant: a process still starting when the wait ends counts as started.
SettledOutcome_lenient(status, output) ==
  IF status \in {"running", "starting"}
    THEN Returned(status)
    ELSE [ok |-> FALSE, status |-> status,
          error |-> GatewayStartError(status, output)]

\* The outcome of the bounded wait: the handle when the last status read is
\* running, GatewayStartError with the captured output otherwise.
SettledOutcome(status, output) ==
  IF status = "running"
    THEN Returned(status)
    ELSE [ok |-> FALSE, status |-> status,
          error |-> GatewayStartError(status, output)]

\* ------------------------------------------------------------ the /ws route
\* Variant: any existing process counts as ready.
isGatewayReady_anyStatus(existing) == existing # None

\* existingProcess !== null && existingProcess.status === 'running'
isGatewayReady(existing) ==
  /\ existing # None
  /\ existing[1].status = "running"

\* Lines 31-47: the upgrade check, then the lookup is requested.
Request(r, up, h) ==
  /\ pc[r] = "new"
  /\ upgrade' = [upgrade EXCEPT ![r] = up]
  /\ host' = [host EXCEPT ![r] = h]
  /\ IF ~isWebSocketRequest(up)
       THEN /\ response' = [response EXCEPT ![r] = UpgradeRequiredResponse]
            /\ pc' = [pc EXCEPT ![r] = "done"]
            /\ did' = did
       ELSE /\ response' = response
            /\ pc' = [pc EXCEPT ![r] = "lookup"]
            /\ did' = [did EXCEPT ![r] = @ \cup {"lookup"}]
  /\ UNCHANGED <<existingProcess, containerResponse, ready>>
  /\ UNCHANGED <<gatewayVars, socketVars, relayVars>>

\* Lines 47-54: the lookup answers; a ready gateway goes on to wsConnect, any
\* other answer calls ensureMoltbotGateway, which joins the start in flight
\* or opens an attempt of its own.
Lookup(r) ==
  /\ pc[r] = "lookup"
  /\ LET existing == findExistingMoltbotProcess(procs) IN
     /\ existingProcess' = [existingProcess EXCEPT ![r] = existing]
     /\ IF isGatewayReady(existing)
          THEN /\ pc' = [pc EXCEPT ![r] = "wsConnect"]
               /\ did' = [did EXCEPT ![r] = @ \cup {"wsConnect"}]
               /\ ready' = [ready EXCEPT ![r] =
                              [via |-> "lookup", status |-> existing[1].status]]
               /\ UNCHANGED <<attempts, joined, inFlightAtCall>>
          ELSE /\ did' = [did EXCEPT ![r] = @ \cup {"ensure"}]
               /\ ready' = ready
               /\ inFlightAtCall' = [inFlightAtCall EXCEPT ![r] =
                     {a \in 1..Len(attempts) : attempts[a].result = Pending}]
               /\ IF InFlight(attempts) # 0
                    THEN /\ joined' = [joined EXCEPT ![r] = InFlight(attempts)]
                         /\ attempts' = attempts
                         /\ pc' = [pc EXCEPT ![r] = "waiting"]
                    ELSE /\ attempts' = Append(attempts,
                                          [owner |-> r, proc |-> 0, starts |-> 0,
                                           sawNone |-> FALSE, result |-> Pending])
                         /\ joined' = [joined EXCEPT ![r] = Len(attempts) + 1]
                         /\ pc' = [pc EXCEPT ![r] = "query"]
  /\ UNCHANGED <<upgrade, host, response, containerResponse, procs, polls>>
  /\ UNCHANGED <<socketVars, relayVars>>

\* Lines 53-66 after ensureMoltbotGateway settles for request r: a failure is
\* answered with 503, a success goes on to wsConnect.
AfterEnsure(r, outcome) ==
  IF outcome.ok
    THEN /\ pc' = [pc EXCEPT ![r] = "wsConnect"]
         /\ did' = [did EXCEPT ![r] = @ \cup {"wsConnect"}]
         /\ ready' = [ready EXCEPT ![r] =
                        [via |-> "ensure", status |-> outcome.status]]
         /\ response' = response
    ELSE /\ pc' = [pc EXCEPT ![r] = "done"]
         /\ did' = did
         /\ ready' = ready
         /\ response' = [response EXCEPT ![r] = StartFailureResponse(outcome.error)]

\* ensureRunning steps 1, 2 and 4 of the attempt's owner: query; a running
\* gateway is returned at once; otherwise the process is started.
EnsureStart(r, res) ==
  /\ pc[r] = "query"
  /\ LET a == joined[r]
         existing == findExistingMoltbotProcess(procs) IN
     IF existing # None /\ existing[1].status = "running"
       THEN /\ res = "running"
            /\ attempts' = [attempts EXCEPT ![a].result = Some(Returned("running"))]
            /\ AfterEnsure(r, Returned("running"))
            /\ UNCHANGED <<procs, polls>>
       ELSE IF res = "SpawnError"
         THEN /\ attempts' = [attempts EXCEPT
                    ![a].result = Some(Raised("none", "SpawnError: command rejected")),
                    ![a].starts = @ + 1,
                    ![a].sawNone = (existing = None)]
              /\ AfterEnsure(r, Raised("none", "SpawnError: command rejected"))
              /\ UNCHANGED <<procs, polls>>
         ELSE /\ procs' = Append(procs, res)
              /\ attempts' = [attempts EXCEPT
                    ![a].proc = Len(procs) + 1,
                    ![a].starts = @ + 1,
                    ![a].sawNone = (existing = None)]
              /\ polls' = [polls EXCEPT ![r] = 0]
              /\ pc' = [pc EXCEPT ![r] = "polling"]
              /\ UNCHANGED <<did, ready, response>>
  /\ UNCHANGED <<upgrade, host, existingProcess, containerResponse, joined,
                 inFlightAtCall>>
  /\ UNCHANGED <<socketVars, relayVars>>

\* One iteration of awaitSettled by the attempt's owner: re-read the status;
\* stop when it has left starting/running or the attempts are exhausted.
Poll(r) ==
  /\ pc[r] = "polling"
  /\ LET a == joined[r]
         status == procs[attempts[a].proc] IN
     IF status \in {"starting", "running"} /\ polls[r] + 1 < MaxAttempts
       THEN /\ polls' = [polls EXCEPT ![r] = @ + 1]
            /\ UNCHANGED <<attempts, pc, did, ready, response>>
       ELSE /\ polls' = [polls EXCEPT ![r] = @ + 1]
            /\ attempts' = [attempts EXCEPT ![a].result =
                              Some(SettledOutcome(status, logs(attempts[a].proc)))]
            /\ AfterEnsure(r, SettledOutcome(status, logs(attempts[a].proc)))
  /\ UNCHANGED <<upgrade, host, existingProcess, containerResponse, procs,
                 joined, inFlightAtCall>>
  /\ UNCHANGED <<socketVars, relayVars>>

\* A caller that joined a start in flight resumes with that attempt's outcome.
WaiterResume(r) ==
  /\ pc[r] = "waiting"
  /\ attempts[joined[r]].result # Pending
  /\ AfterEnsure(r, attempts[joined[r]].result[1])
  /\ UNCHANGED <<upgrade, host, existingProcess, containerResponse>>
  /\ UNCHANGED <<gatewayVars, socketVars, relayVars>>

\* Lines 66-159: wsConnect answers.  Without a socket the backend's response
\* is returned; with one the pair is created, both ends are accepted, the
\* listeners are registered and 101 is returned.
WsConnect(r, resp) ==
  /\ pc[r] = "wsConnect"
  /\ containerResponse' = [containerResponse EXCEPT ![r] = resp]
  /\ IF resp.webSocket = None
       THEN /\ response' = [response EXCEPT ![r] = FallbackResponse(resp)]
            /\ pc' = [pc EXCEPT ![r] = "done"]
            /\ UNCHANGED <<did, socketVars>>
       ELSE LET s == SessionSetup(NewSocket) IN
            /\ serverWs' = [serverWs EXCEPT ![r] = s.serverWs]
            /\ containerWs' = [containerWs EXCEPT ![r] = s.containerWs]
            /\ listeners' = [listeners EXCEPT ![r] = s.listeners]
            /\ did' = [did EXCEPT ![r] = @ \cup {"pair"}]
            /\ response' = [response EXCEPT ![r] = SwitchingProtocols(r)]
            /\ pc' = [pc EXCEPT ![r] = "relaying"]
  /\ UNCHANGED <<upgrade, host, existingProcess, ready>>
  /\ UNCHANGED <<gatewayVars, relayVars>>

\* ------------------------------------------------- the sandbox's processes
\* starting -> running
ProcRun(i) ==
  /\ i \in 1..Len(procs)
  /\ procs[i] = "starting"
  /\ procs' = [procs EXCEPT ![i] = "running"]
  /\ UNCHANGED <<routeVars, attempts, joined, inFlightAtCall, polls, socketVars,
                 relayVars>>

\* starting or running -> failed; running -> completed
ProcExit(i, status) ==
  /\ i \in 1..Len(procs)
  /\ \/ procs[i] \in {"starting", "running"} /\ status = "failed"
     \/ procs[i] = "running" /\ status = "completed"
  /\ procs' = [procs EXCEPT ![i] = status]
  /\ UNCHANGED <<routeVars, attempts, joined, inFlightAtCall, polls, socketVars,
                 relayVars>>

\* ------------------------------------------------------- the relay events
\* Lines 90-97: a frame from the client.
ClientMessage(r, data) ==
  /\ Delivers(serverWs[r])
  /\ <<"serverWs", "message">> \in listeners[r]
  /\ LET sends == serverMessageSends(data, ReadyState(containerWs[r])) IN
     /\ lastC2B' = [lastC2B EXCEPT ![r] =
          [frame |-> data, state |-> ReadyState(containerWs[r]), sent |-> sends]]
     /\ c2bLog' = [c2bLog EXCEPT ![r] = Logged(@, data, sends)]
  /\ UNCHANGED <<routeVars, gatewayVars, socketVars, lastB2C, closeCalls,
                 b2cLog, xlate, closing, wait>>

\* Lines 100-125: a frame from the backend.
ContainerMessage(r, data) ==
  /\ Delivers(containerWs[r])
  /\ <<"containerWs", "message">> \in listeners[r]
  /\ LET sends == containerMessageSends(data, host[r], ReadyState(serverWs[r])) IN
     /\ lastB2C' = [lastB2C EXCEPT ![r] =
          [frame |-> data, state |-> ReadyState(serverWs[r]), sent |-> sends]]
     /\ b2cLog' = [b2cLog EXCEPT ![r] = Logged(@, data, sends)]
  /\ UNCHANGED <<routeVars, gatewayVars, socketVars, lastC2B, closeCalls,
                 c2bLog, xlate, closing, wait>>

\* The event a handler was called with.
CloseEvent(code, reason) == [type |-> "close", code |-> code, reason |-> reason]
ErrorEvent(error) == [type |-> "error", error |-> error]

\* One call ws.close(code, reason) on the endpoint named on, made by the
\* handler of the event cause, and what came of it.
CloseCall(on, ws, code, reason, cause) ==
  [on |-> on, code |-> code, reason |-> reason, cause |-> cause,
   effective |-> CloseOutcome(ws, code) = "closed",
   raised |-> CloseOutcome(ws, code) = "TypeError"]

\* Lines 128-131: the client endpoint's close event.
ClientClose(r, code, reason) ==
  /\ DeliversClose(serverWs[r])
  /\ <<"serverWs", "close">> \in listeners[r]
  /\ serverWs' = [serverWs EXCEPT ![r].closedIncoming = TRUE]
  /\ containerWs' = [containerWs EXCEPT ![r] = Close(@, code)]
  /\ closeCalls' = [closeCalls EXCEPT ![r] =
       Append(@, CloseCall("containerWs", containerWs[r], code, reason,
                           CloseEvent(code, reason)))]
  /\ UNCHANGED <<routeVars, gatewayVars, listeners, lastC2B, lastB2C, c2bLog,
                 b2cLog, xlate, closing, wait>>

\* Lines 133-142: the backend endpoint's close event.
ContainerClose(r, code, reason) ==
  /\ DeliversClose(containerWs[r])
  /\ <<"containerWs", "close">> \in listeners[r]
  /\ containerWs' = [containerWs EXCEPT ![r].closedIncoming = TRUE]
  /\ serverWs' = [serverWs EXCEPT ![r] = Close(@, code)]
  /\ closeCalls' = [closeCalls EXCEPT ![r] =
       Append(@, CloseCall("serverWs", serverWs[r], code,
                           containerCloseReason(reason, host[r]),
                           CloseEvent(code, reason)))]
  /\ UNCHANGED <<routeVars, gatewayVars, listeners, lastC2B, lastB2C, c2bLog,
                 b2cLog, xlate, closing, wait>>

\* Variant: the backend endpoint is one variable shared by the sessions, so
\* the handler closes every session's backend endpoint.
ClientError_sharedBackend(r, error) ==
  /\ Delivers(serverWs[r])
  /\ <<"serverWs", "error">> \in listeners[r]
  /\ serverWs' = [serverWs EXCEPT ![r].errored = TRUE]
  /\ containerWs' = [q \in DOMAIN containerWs |->
                       IF containerWs[q].exists
                         THEN Close(containerWs[q], AbnormalClosure)
                         ELSE containerWs[q]]
  /\ closeCalls' = [closeCalls EXCEPT ![r] =
       Append(@, CloseCall("containerWs", containerWs[r], AbnormalClosure,
                           ClientErrorReason, ErrorEvent(error)))]
  /\ UNCHANGED <<routeVars, gatewayVars, listeners, lastC2B, lastB2C, c2bLog,
                 b2cLog, xlate, closing, wait>>

\* Lines 145-148: the client endpoint's transport fails.
ClientError(r, error) ==
  /\ Delivers(serverWs[r])
  /\ <<"serverWs", "error">> \in listeners[r]
  /\ serverWs' = [serverWs EXCEPT ![r].errored = TRUE]
  /\ containerWs' = [containerWs EXCEPT ![r] = Close(@, AbnormalClosure)]
  /\ closeCalls' = [closeCalls EXCEPT ![r] =
       Append(@, CloseCall("containerWs", containerWs[r], AbnormalClosure,
                           ClientErrorReason, ErrorEvent(error)))]
  /\ UNCHANGED <<routeVars, gatewayVars, listeners, lastC2B, lastB2C, c2bLog,
                 b2cLog, xlate, closing, wait>>

\* Lines 150-153: the backend endpoint's transport fails.
ContainerError(r, error) ==
  /\ Delivers(containerWs[r])
  /\ <<"containerWs", "error">> \in listeners[r]
  /\ containerWs' = [containerWs EXCEPT ![r].errored = TRUE]
  /\ serverWs' = [serverWs EXCEPT ![r] = Close(@, AbnormalClosure)]
  /\ closeCalls' = [closeCalls EXCEPT ![r] =
       Append(@, CloseCall("serverWs", serverWs[r], AbnormalClosure,
                           ContainerErrorReason, ErrorEvent(error)))]
  /\ UNCHANGED <<routeVars, gatewayVars, listeners, lastC2B, lastB2C, c2bLog,
                 b2cLog, xlate, closing, wait>>

\* ----------------------------------------------------------- the inputs
\* Frames of a client.
ClientFrames ==
  {BinaryFrame(<<1, 2>>), TextFrame("compact", JObj(<<<<"method", JStr(ReasonBye)>>>>))}

ErrorDoc(id, message) ==
  JObj(<<<<"id", id>>, <<"error", JObj(<<<<"code", JNum("5")>>, <<"message", message>>>>)>>>>)

\* Documents a backend frame can spell.
BackendDocs ==
  { Invalid, JNull, JNum("7"),
    JObj(<<<<"id", JNum("12345678901234567890")>>, <<"result", JStr(ReasonBye)>>>>),
    JObj(<<<<"id", JNum("1.0")>>, <<"error", JNull>>>>),
    JObj(<<<<"error", JStr(PairingRequired)>>>>),
    JObj(<<<<"error", JObj(<<<<"code", JNum("5")>>>>)>>>>),
    ErrorDoc(JNum("1"), JStr(<<>>)),
    ErrorDoc(JNum("1"), JNum("5")),
    ErrorDoc(JNum("1"), JStr(ReasonBye)),
    ErrorDoc(JNum("1"), JStr(GatewayTokenMissing)),
    ErrorDoc(JNum("1"), JStr(PairingRequired)),
    ErrorDoc(JNum("1.0"), JStr(GatewayTokenMismatch)),
    ErrorDoc(JNum("12345678901234567890"), JStr(PairingRequired)) }

BackendFrames ==
  {BinaryFrame(<<1, 2>>)}
    \cup {TextFrame(layout, doc) : layout \in {"compact", "spaced"}, doc \in BackendDocs}

NormalClosure == 1000

\* Close events: a normal closure, an application code, and the close that
\* carried no status code.
CloseCodes == {NormalClosure, 4001, 1005}
CloseReasons == {ReasonBye, PairingRequired}

\* What an error event may hold.
ErrorEvents == {"ECONNRESET", "Invalid frame header"}

Next ==
  \/ \E r \in Req, up \in UpgradeValues, h \in {HostExample} : Request(r, up, h)
  \/ \E r \in Req : Lookup(r)
  \/ \E r \in Req, res \in StartResults : EnsureStart(r, res)
  \/ \E r \in Req : Poll(r)
  \/ \E r \in Req : WaiterResume(r)
  \/ \E r \in Req : \E resp \in ContainerResponses(r) : WsConnect(r, resp)
  \/ \E i \in 1..NumReq : ProcRun(i)
  \/ \E i \in 1..NumReq, status \in {"failed", "completed"} : ProcExit(i, status)

Spec == Init /\ [][Next]_vars

\* One request from its arrival to the end of its relay session.
One == {1}

InitRelay ==
  InitOver(One) /\ InitLogs(One, NoLog) /\ xlate = NoXlate /\ closing = NoClosing
    /\ wait = NoWait

NextRelay ==
  \/ \E up \in UpgradeValues, h \in Hosts : Request(1, up, h)
  \/ Lookup(1)
  \/ \E res \in StartResults : EnsureStart(1, res)
  \/ Poll(1)
  \/ \E resp \in ContainerResponses(1) : WsConnect(1, resp)
  \/ ProcRun(1)
  \/ \E status \in {"failed", "completed"} : ProcExit(1, status)
  \/ \E data \in ClientFrames : ClientMessage(1, data)
  \/ \E data \in BackendFrames : ContainerMessage(1, data)
  \/ ClientClose(1, NormalClosure, ReasonBye)
  \/ ContainerClose(1, NormalClosure, PairingRequired)
  \/ \E error \in {"ECONNRESET"} : ClientError(1, error)
  \/ \E error \in {"ECONNRESET"} : ContainerError(1, error)

SpecRelay == InitRelay /\ [][NextRelay]_vars

\* One request whose session's frames are kept, each direction up to
\* MaxFrames frames.
OrderBackendFrames ==
  {BinaryFrame(<<1, 2>>),
   TextFrame("spaced", ErrorDoc(JNum("1"), JStr(PairingRequired)))}

InitOrder ==
  InitOver(One) /\ InitLogs(One, EmptyLog) /\ xlate = NoXlate /\ closing = NoClosing
    /\ wait = NoWait

NextOrder ==
  \/ \E up \in UpgradeValues : Request(1, up, HostH)
  \/ Lookup(1)
  \/ \E res \in StartResults : EnsureStart(1, res)
  \/ Poll(1)
  \/ \E resp \in ContainerResponses(1) : WsConnect(1, resp)
  \/ ProcRun(1)
  \/ \E status \in {"failed", "completed"} : ProcExit(1, status)
  \/ \E data \in ClientFrames :
       Len(c2bLog[1].received) < MaxFrames /\ ClientMessage(1, data)
  \/ \E data \in OrderBackendFrames :
       Len(b2cLog[1].received) < MaxFrames /\ ContainerMessage(1, data)
  \/ \E code \in {NormalClosure, 1005} : ClientClose(1, code, ReasonBye)
  \/ \E code \in {NormalClosure, 1005} : ContainerClose(1, code, ReasonBye)
  \/ ClientError(1, "ECONNRESET")
  \/ ContainerError(1, "ECONNRESET")

SpecOrder == InitOrder /\ [][NextOrder]_vars

\* ------------------------------------------- the error translator alone
\* 'gateway token'
GatewayTokenOnly ==
  <<"g", "a", "t", "e", "w", "a", "y", " ", "t", "o", "k", "e", "n">>

\* 'Pairing Required'
PairingCapital ==
  <<"P", "a", "i", "r", "i", "n", "g", " ", "R", "e", "q", "u", "i", "r",
    "e", "d">>

XlatePieces ==
  {<<>>, ReasonBye, GatewayTokenOnly, PairingCapital, GatewayTokenMissing,
   GatewayTokenMismatch, PairingRequired}

XlateMessages ==
  XlatePieces \cup {a \o <<";", " ">> \o b : a, b \in XlatePieces}

InitXlate ==
  /\ InitOver(One)
  /\ InitLogs(One, NoLog)
  /\ closing = NoClosing
  /\ wait = NoWait
  /\ xlate \in {[message |-> m, host |-> h, result |-> <<>>, done |-> FALSE] :
                  m \in XlateMessages, h \in Hosts}

\* One call of transformErrorMessage(message, host).
Translate ==
  /\ ~xlate.done
  /\ xlate' = [xlate EXCEPT
                 !.result = transformErrorMessage(xlate.message, xlate.host),
                 !.done = TRUE]
  /\ UNCHANGED <<routeVars, gatewayVars, socketVars, lastC2B, lastB2C,
                 closeCalls, c2bLog, b2cLog, closing, wait>>

NextXlate == Translate

SpecXlate == InitXlate /\ [][NextXlate]_vars

\* ------------------------------------- the backend close's reason alone
\* Characters outside ASCII are named by their code point; each is one UTF-16
\* code unit, which is what reason.length and reason.slice count.
EAcute == "U+00E9"
EuroSign == "U+20AC"

Repeat(c, n) == [i \in 1..n |-> c]

\* A host name of 94 characters.
HostLong ==
  Repeat("a", 30) \o <<".">> \o Repeat("b", 30) \o <<".">> \o Repeat("c", 28)
    \o <<".", "d", "e", "v">>

ClosingReasons ==
  {Repeat(c, n) : c \in {"a", EAcute, EuroSign}, 
     n \in {0, 1, 60, 100, 119, 120, 121, 122, 123, 124, 125, 200}}
    \cup {PairingRequired, GatewayTokenMissing,
          Repeat("a", 110) \o PairingRequired,
          Repeat("a", 120) \o GatewayTokenMismatch,
          Repeat(EAcute, 30) \o PairingRequired}

InitReason ==
  /\ InitOver(One)
  /\ InitLogs(One, NoLog)
  /\ xlate = NoXlate
  /\ wait = NoWait
  /\ closing \in {[reason |-> m, host |-> h, passed |-> <<>>, done |-> FALSE] :
                    m \in ClosingReasons, h \in {HostH, HostExample, HostLong}}

\* Lines 136-139: the reason the containerWs close handler passes on.
CloseReason ==
  /\ ~closing.done
  /\ closing' = [closing EXCEPT
                   !.passed = containerCloseReason(closing.reason, closing.host),
                   !.done = TRUE]
  /\ UNCHANGED <<routeVars, gatewayVars, socketVars, lastC2B, lastB2C,
                 closeCalls, c2bLog, b2cLog, xlate, wait>>

NextReason == CloseReason

SpecReason == InitReason /\ [][NextReason]_vars

\* --------------------------------------- one session and how it ends
\* One request whose session sees every kind of close and error event.
InitClosing ==
  InitOver(One) /\ InitLogs(One, NoLog) /\ xlate = NoXlate /\ closing = NoClosing
    /\ wait = NoWait

\* The end of an endpoint's connection as its listeners see it: a close
\* event or an error event.
ClientEnds(r) ==
  \/ \E code \in CloseCodes, reason \in CloseReasons : ClientClose(r, code, reason)
  \/ \E error \in ErrorEvents : ClientError(r, error)

ContainerEnds(r) ==
  \/ \E code \in CloseCodes, reason \in CloseReasons : ContainerClose(r, code, reason)
  \/ \E error \in ErrorEvents : ContainerError(r, error)

NextClosing ==
  \/ \E up \in UpgradeValues, h \in {HostH, HostLong} : Request(1, up, h)
  \/ Lookup(1)
  \/ \E res \in StartResults : EnsureStart(1, res)
  \/ Poll(1)
  \/ \E resp \in ContainerResponses(1) : WsConnect(1, resp)
  \/ ProcRun(1)
  \/ \E status \in {"failed", "completed"} : ProcExit(1, status)
  \/ ClientMessage(1, BinaryFrame(<<1, 2>>))
  \/ ContainerMessage(1, BinaryFrame(<<1, 2>>))
  \/ \E code \in CloseCodes, reason \in CloseReasons : ClientClose(1, code, reason)
  \/ \E code \in CloseCodes, reason \in CloseReasons : ContainerClose(1, code, reason)
  \/ \E error \in ErrorEvents : ClientError(1, error)
  \/ \E error \in ErrorEvents : ContainerError(1, error)

SpecClosing == InitClosing /\ [][NextClosing]_vars

\* Fair delivery of socket events: an event an endpoint has for its
\* listeners is delivered, and every connection ends at some time, by the
\* peer's close frame or by a failure.
SpecClosingFair ==
  SpecClosing /\ WF_vars(ClientEnds(1)) /\ WF_vars(ContainerEnds(1))

\* ------------------------------------------- two sessions side by side
\* Two requests, each from its arrival to the end of its relay session.
Two == {1, 2}

InitSessions ==
  InitOver(Two) /\ InitLogs(Two, NoLog) /\ xlate = NoXlate /\ closing = NoClosing
    /\ wait = NoWait

NextSessions ==
  \/ \E r \in Two : Request(r, HdrWebsocket, HostH)
  \/ \E r \in Two : Lookup(r)
  \/ \E r \in Two, res \in {"starting", "running"} : EnsureStart(r, res)
  \/ \E r \in Two : Poll(r)
  \/ \E r \in Two : WaiterResume(r)
  \/ \E r \in Two : \E resp \in ContainerResponses(r) : WsConnect(r, resp)
  \/ \E i \in Two : ProcRun(i)
  \/ \E i \in Two : ProcExit(i, "failed")
  \/ \E r \in Two : ClientMessage(r, BinaryFrame(<<1, 2>>))
  \/ \E r \in Two :
       ContainerMessage(r, TextFrame("spaced", ErrorDoc(JNum("1"), JStr(PairingRequired))))
  \/ \E r \in Two : ClientClose(r, NormalClosure, ReasonBye)
  \/ \E r \in Two : ContainerClose(r, NormalClosure, PairingRequired)
  \/ \E r \in Two : ClientError(r, "ECONNRESET")
  \/ \E r \in Two : ContainerError(r, "ECONNRESET")

SpecSessions == InitSessions /\ [][NextSessions]_vars

\* ------------------------------------ debug.ts: waiting for a process
\* A JavaScript number: an integer or NaN.
Num(n) == [nan |-> FALSE, n |-> n]
NaN == [nan |-> TRUE, n |-> 0]

Digits == <<"0", "1", "2", "3", "4", "5", "6", "7", "8", "9">>
IsDigit(c) == \E d \in 1..10 : Digits[d] = c
DigitValue(c) == (CHOOSE d \in 1..10 : Digits[d] = c) - 1

\* How many characters of white space, and of digits, s begins with.
LeadingSpaces(s) ==
  CHOOSE k \in 0..Len(s) :
    /\ \A i \in 1..k : s[i] = " "
    /\ k = Len(s) \/ s[k + 1] # " "

LeadingDigits(s) ==
  CHOOSE k \in 0..Len(s) :
    /\ \A i \in 1..k : IsDigit(s[i])
    /\ k = Len(s) \/ ~IsDigit(s[k + 1])

RECURSIVE Decimal(_)
Decimal(ds) ==
  IF ds = <<>>
    THEN 0
    ELSE 10 * Decimal(SubSeq(ds, 1, Len(ds) - 1)) + DigitValue(ds[Len(ds)])

\* parseInt(text, 10): leading white space is skipped, a sign is read, then
\* the longest run of digits; NaN when there is no digit.
parseInt(text) ==
  LET trimmed == SubSeq(text, LeadingSpaces(text) + 1, Len(text))
      signed == trimmed # <<>> /\ trimmed[1] \in {"-", "+"}
      rest == IF signed THEN Tail(trimmed) ELSE trimmed
      ds == SubSeq(rest, 1, LeadingDigits(rest)) IN
  IF ds = <<>>
    THEN NaN
    ELSE IF signed /\ trimmed[1] = "-"
           THEN Num(0 - Decimal(ds))
           ELSE Num(Decimal(ds))

\* Math.min(a, b)
MathMin(a, b) ==
  IF a.nan \/ b.nan THEN NaN ELSE IF a.n < b.n THEN a ELSE b

\* a < b in JavaScript: false when either is NaN.
LessThan(a, b) == ~a.nan /\ ~b.nan /\ a.n < b.n

\* Line 131: the highest ?timeout, in seconds.
MaxTimeoutSecs == 120

\* Line 131: Math.min(parseInt(c.req.query('timeout') || '15', 10), 120)
timeoutSecs(query) ==
  MathMin(parseInt(IF query = None \/ query[1] = <<>>
                     THEN <<"1", "5">>
                     ELSE query[1]),
          Num(MaxTimeoutSecs))

\* Line 132: timeoutSecs * 2
maxAttempts(query) ==
  IF timeoutSecs(query).nan THEN NaN ELSE Num(timeoutSecs(query).n * 2)

\* Lines 140 and 473: the sleep of one iteration, in milliseconds.
CliInterval == 500
ConfigInterval == 200

\* Line 472: the attempts of /container-config.
ConfigAttempts == 10

\* Lines 141 and 474: if (proc.status !== 'running') break
LoopBreaks(status) == status # "running"

\* Lines 138-139 and 471-472: startProcess has returned a process in the
\* status started; attempts = 0 and the loop's condition is tested at once.
WaitStarted(w, started) ==
  [w EXCEPT !.pc = IF LessThan(Num(0), w.maxAttempts) THEN "loop" ELSE "logs",
            !.status = started]

\* Lines 155-157 and 496-498: the route's catch; /cli names the command too.
DebugErrorResponse(w, error) ==
  IF w.route = "cli"
    THEN Json([error |-> errorMessage(error), command |-> w.command], 500)
    ELSE Json([error |-> errorMessage(error)], 500)

\* Lines 128-135: GET /debug/cli up to the call of sandbox.startProcess(cmd),
\* where the handler waits for the sandbox.
CliRequest(cmd, timeout) ==
  /\ wait.pc = "idle"
  /\ wait' = [wait EXCEPT
       !.route = "cli",
       !.pc = "starting",
       !.command = IF cmd = None \/ cmd[1] = "" THEN "openclaw --help" ELSE cmd[1],
       !.timeoutSecs = timeoutSecs(timeout),
       !.maxAttempts = maxAttempts(timeout),
       !.interval = CliInterval]
  /\ UNCHANGED <<routeVars, gatewayVars, socketVars, lastC2B, lastB2C,
                 closeCalls, c2bLog, b2cLog, xlate, closing>>

\* Lines 466-469: GET /debug/container-config up to the call of
\* sandbox.startProcess('cat /root/.clawdbot/clawdbot.json').
ContainerConfigRequest ==
  /\ wait.pc = "idle"
  /\ wait' = [wait EXCEPT
       !.route = "container-config",
       !.pc = "starting",
       !.command = "cat /root/.clawdbot/clawdbot.json",
       !.maxAttempts = Num(ConfigAttempts),
       !.interval = ConfigInterval]
  /\ UNCHANGED <<routeVars, gatewayVars, socketVars, lastC2B, lastB2C,
                 closeCalls, c2bLog, b2cLog, xlate, closing>>

\* Lines 135 and 469: startProcess answers with a process, or throws and
\* the route's catch answers.
StartProcessAnswer(started) ==
  /\ wait.pc = "starting"
  /\ wait' = IF started = "SpawnError"
               THEN [wait EXCEPT !.pc = "done",
                       !.response = DebugErrorResponse(wait,
                          StartError("SpawnError: command rejected"))]
               ELSE WaitStarted(wait, started)
  /\ UNCHANGED <<routeVars, gatewayVars, socketVars, lastC2B, lastB2C,
                 closeCalls, c2bLog, b2cLog, xlate, closing>>

\* Lines 139-143 and 472-476: one iteration of the loop: sleep, read
\* proc.status, break or count the attempt and test the loop's condition.
WaitIteration ==
  /\ wait.pc = "loop"
  /\ wait' = [wait EXCEPT
       !.elapsed = @ + wait.interval,
       !.polls = @ + 1,
       !.observed = wait.status,
       !.attempts = IF LoopBreaks(wait.status) THEN @ ELSE @ + 1,
       !.pc = IF LoopBreaks(wait.status)
                THEN "logs"
                ELSE IF LessThan(Num(wait.attempts + 1), wait.maxAttempts)
                       THEN "loop"
                       ELSE "logs"]
  /\ UNCHANGED <<routeVars, gatewayVars, socketVars, lastC2B, lastB2C,
                 closeCalls, c2bLog, b2cLog, xlate, closing>>

\* Lines 146-154 and 489-495: the body c.json() sends, which reports
\* proc.status as it is then.  JSON.stringify leaves out a property whose
\* value is undefined (exitCode of a process that has not exited, raw when
\* config is truthy) and writes NaN as null.  /container-config answers the
\* parsed stdout as config, null when it does not parse.
DebugBody(w, stdout, stderr) ==
  LET exited == IF w.exitCode = None THEN <<>> ELSE [exitCode |-> w.exitCode[1]]
      parsed == JSONparse(stdout)
      config == IF parsed.threw THEN JNull ELSE parsed.value IN
  IF w.route = "cli"
    THEN [command |-> w.command, status |-> w.status, attempts |-> w.attempts,
          timeoutSecs |-> IF w.timeoutSecs.nan THEN JNull ELSE w.timeoutSecs,
          stdout |-> stdout, stderr |-> stderr] @@ exited
    ELSE [status |-> w.status, config |-> config, stderr |-> stderr]
           @@ exited
           @@ (IF Truthy(config) THEN <<>> ELSE [raw |-> stdout])

\* Lines 145-157 and 478-498: proc.getLogs() and the answer; a getLogs()
\* that throws is answered 500 by the route's catch.
GetLogs(ok, stdout) ==
  /\ wait.pc = "logs"
  /\ wait' = [wait EXCEPT
       !.pc = "done",
       !.response =
          IF ok
            THEN Json(DebugBody(wait, stdout, "stderr"), 200)
            ELSE DebugErrorResponse(wait, StartError("LogRetrievalError"))]
  /\ UNCHANGED <<routeVars, gatewayVars, socketVars, lastC2B, lastB2C,
                 closeCalls, c2bLog, b2cLog, xlate, closing>>

\* The started process goes its way in the sandbox: starting -> running,
\* starting or running -> failed, running -> completed; an exited process
\* has its exit code, 0 when completed.
WaitProcStep(status) ==
  /\ wait.pc \in {"loop", "logs"}
  /\ \/ wait.status = "starting" /\ status \in {"running", "failed"}
     \/ wait.status = "running" /\ status \in {"completed", "failed"}
  /\ wait' = [wait EXCEPT
       !.status = status,
       !.exitCode = CASE status = "completed" -> Some(0)
                      [] status = "failed" -> Some(1)
                      [] OTHER -> None]
  /\ UNCHANGED <<routeVars, gatewayVars, socketVars, lastC2B, lastB2C,
                 closeCalls, c2bLog, b2cLog, xlate, closing>>

InitWait ==
  InitOver(One) /\ InitLogs(One, NoLog) /\ xlate = NoXlate /\ closing = NoClosing
    /\ wait = NoWait

\* ?cmd is absent, empty or a command; ?timeout is absent, empty, '1', '2',
\* '0', '-1', 'abc' or ' 3px'; stdout is empty, a text that is no JSON, or
\* the JSON texts of an object, of null and of 0.
NextWait ==
  \/ \E cmd \in {None, Some(""), Some("openclaw status")},
        timeout \in {None, Some(<<>>), Some(<<"1">>), Some(<<"2">>),
                     Some(<<"0">>), Some(<<"-", "1">>),
                     Some(<<"a", "b", "c">>), Some(<<" ", "3", "p", "x">>)} :
       CliRequest(cmd, timeout)
  \/ ContainerConfigRequest
  \/ \E started \in StartResults : StartProcessAnswer(started)
  \/ WaitIteration
  \/ \E ok \in BOOLEAN,
        stdout \in {[layout |-> "empty", doc |-> Invalid],
                    [layout |-> "plain", doc |-> Invalid],
                    [layout |-> "spaced",
                     doc |-> JObj(<<<<"gateway", JObj(<<<<"port", JNum("18789")>>>>)>>>>)],
                    [layout |-> "compact", doc |-> JNull],
                    [layout |-> "compact", doc |-> JNum("0")]} :
       GetLogs(ok, stdout)
  \/ \E status \in Statuses : WaitProcStep(status)

SpecWait == InitWait /\ [][NextWait]_vars

\* ===================================================== claims, route part
IsWaiter(r) == joined[r] # 0 /\ attempts[joined[r]].owner # r

NoSession(r) ==
  /\ serverWs[r] = NoSocket
  /\ containerWs[r] = NoSocket
  /\ listeners[r] = {}
  /\ "pair" \notin did[r]

\* C1: concurrent callers of ensureRunning share one start: at most one
\* attempt is outstanding at any time, an attempt issues at most one start
\* and exactly one when it found no gateway process, every process belongs to
\* an attempt, and a caller that joined another's attempt starts nothing.
C1_OneStartPerRace ==
  /\ Cardinality({a \in 1..Len(attempts) : attempts[a].result = Pending}) <= 1
  /\ \A a \in 1..Len(attempts) :
       /\ attempts[a].starts <= 1
       /\ attempts[a].sawNone => attempts[a].starts = 1
  /\ Len(procs) <= Len(attempts)
  /\ \A r \in Req : inFlightAtCall[r] # {} =>
       \A a \in 1..Len(attempts) : attempts[a].owner # r

C1_Witness ==
  \E r1, r2 \in Req :
    /\ r1 # r2
    /\ existingProcess[r1] = None /\ existingProcess[r2] = None
    /\ {"ensure"} \subseteq (did[r1] \cap did[r2])
    /\ joined[r1] = joined[r2]
    /\ attempts[joined[r1]].owner = r1
    /\ attempts[joined[r1]].starts = 1
    /\ attempts[joined[r1]].result = Some(Returned("running"))
    /\ pc[r2] = "relaying"
    /\ Len(procs) = 1

\* C2: a caller that calls ensureRunning while a start is in flight joins
\* that attempt, does not leave the wait before the attempt has its outcome,
\* and gets exactly that outcome (success, or the same failure).
C2_WaiterSharesOutcome ==
  \A r \in Req : inFlightAtCall[r] # {} =>
    /\ joined[r] \in inFlightAtCall[r]
    /\ IsWaiter(r)
    /\ pc[r] # "waiting" =>
         /\ attempts[joined[r]].result # Pending
         /\ LET outcome == attempts[joined[r]].result[1] IN
            IF outcome.ok
              THEN ready[r] = [via |-> "ensure", status |-> outcome.status]
              ELSE /\ response[r].status = 503
                   /\ response[r].body.details = outcome.error.message

C2_Witness ==
  \E r \in Req :
    /\ inFlightAtCall[r] # {}
    /\ IsWaiter(r)
    /\ pc[r] = "done"
    /\ response[r].status = 503
    /\ response[r].body.details = "GatewayStartError: process failed"

\* C3: wsConnect is requested only once readiness was decided on a running
\* process: by the lookup's answer, or by a successful ensureRunning.
C3_ConnectOnlyWhenReady ==
  \A r \in Req : "wsConnect" \in did[r] =>
    /\ ready[r].status = "running"
    /\ \/ /\ ready[r].via = "lookup"
          /\ existingProcess[r] # None
          /\ existingProcess[r][1].status = "running"
          /\ "ensure" \notin did[r]
       \/ /\ ready[r].via = "ensure"
          /\ joined[r] # 0
          /\ attempts[joined[r]].result = Some(Returned("running"))

C3_Witness ==
  \E r1, r2 \in Req :
    /\ ready[r1].via = "lookup" /\ pc[r1] = "relaying"
    /\ ready[r2].via = "ensure" /\ pc[r2] = "relaying"

UpgradeRefused(r) ==
  /\ response[r] = [status |-> 426, contentType |-> "application/json",
                    body |-> [error |-> "WebSocket upgrade required"],
                    webSocket |-> None]
  /\ did[r] = {}
  /\ joined[r] = 0
  /\ NoSession(r)

\* C5 as stated: every request whose Upgrade header is absent or is not the
\* string 'websocket' is answered 426 and causes nothing else.
C5_Original ==
  \A r \in Req :
    (pc[r] # "new" /\ upgrade[r] # HdrWebsocket) => UpgradeRefused(r)

\* C5, amended: every request whose Upgrade header is absent or differs from
\* 'websocket' when compared without regard to letter case is answered 426
\* with the JSON error body, and causes no lookup, no start, no backend
\* connection and no relay session.
C5_UpgradeRequired ==
  \A r \in Req :
    (pc[r] # "new"
       /\ (upgrade[r] = NullHeader \/ ToLowerCase(upgrade[r]) # HdrWebsocket))
      => /\ UpgradeRefused(r)
         /\ pc[r] = "done"

C5_Witness ==
  \E r1, r2 \in Req :
    /\ pc[r1] = "done" /\ upgrade[r1] = NullHeader /\ response[r1].status = 426
    /\ pc[r2] = "done" /\ upgrade[r2] = HdrH2c /\ response[r2].status = 426

EnsureFailed(r) ==
  /\ joined[r] # 0
  /\ pc[r] \notin {"waiting", "query", "polling"}
  /\ ~attempts[joined[r]].result[1].ok

\* A request whose ensureRunning failed is answered 503 with the fixed error
\* text and the failure's message as details; it requests no backend
\* connection and gets no session.
C6_Inv ==
  \A r \in Req : EnsureFailed(r) =>
    /\ response[r] =
         [status |-> 503, contentType |-> "application/json",
          body |-> [error |-> "Moltbot gateway failed to start",
                    details |-> attempts[joined[r]].result[1].error.message],
          webSocket |-> None]
    /\ "wsConnect" \notin did[r]
    /\ containerResponse[r] = NoResponse
    /\ NoSession(r)

\* The step that answers 503 changes no other request or session.
C6_Step ==
  \A r \in Req :
    (response[r].status # 503 /\ response'[r].status = 503) =>
      \A q \in Req \ {r} :
        /\ pc'[q] = pc[q] /\ response'[q] = response[q]
        /\ serverWs'[q] = serverWs[q] /\ containerWs'[q] = containerWs[q]
        /\ listeners'[q] = listeners[q]

\* C6: both parts: the answer to a failed ensureRunning in every state, and
\* the answering step leaving the other requests and sessions untouched.
C6_StartFailure == []C6_Inv /\ [][C6_Step]_vars

C6_Witness ==
  \E r, q \in Req :
    /\ EnsureFailed(r) /\ response[r].status = 503
    /\ response[r].body.details = "GatewayStartError: process starting"
    /\ pc[q] = "relaying"

\* C7: when wsConnect answers without a socket, the route's response is that
\* very response (status, headers, body) and no socket pair is created, no
\* endpoint accepted, no listener registered.
C7_FallbackVerbatim ==
  \A r \in Req :
    (containerResponse[r] # NoResponse /\ containerResponse[r].webSocket = None)
      => /\ response[r] = containerResponse[r]
         /\ pc[r] = "done"
         /\ NoSession(r)

C7_Witness ==
  \E r \in Req :
    /\ containerResponse[r].status = 500
    /\ response[r].status = 500
    /\ response[r].body = [raw |-> "boom"]

\* ===================================================== claims, relay part
Sessions == DOMAIN pc

\* C4: no frame has been handled or forwarded in either direction unless
\* both the client-facing and the backend-facing endpoint have been accepted.
C4_ForwardOnlyAfterAccept ==
  \A r \in Sessions :
    (lastC2B[r] # NoDelivery \/ lastB2C[r] # NoDelivery) =>
      /\ serverWs[r].accepted
      /\ containerWs[r].accepted

C4_Witness ==
  \E r \in Sessions :
    /\ lastC2B[r].sent # <<>>
    /\ lastB2C[r].sent # <<>>
    /\ serverWs[r].accepted /\ containerWs[r].accepted

\* The document has an error.message field.
HasErrorMessage(doc) ==
  HasKey(doc, "error") /\ HasKey(Get(doc, "error"), "message")

PassesThrough(frame) ==
  \/ frame.type = "binary"
  \/ /\ frame.type = "string"
     /\ (frame.text.doc = Invalid \/ ~HasErrorMessage(frame.text.doc))

\* C8: a backend frame handled while the client endpoint is open that is
\* binary, or a text that is no JSON, or JSON without an error.message
\* field, is sent to the client exactly as received: the same frame, in the
\* same serialization.
C8_PassThroughUnchanged ==
  \A r \in Sessions :
    (lastB2C[r].state = "OPEN" /\ PassesThrough(lastB2C[r].frame)) =>
      lastB2C[r].sent = <<lastB2C[r].frame>>

C8_Witness ==
  \E r \in Sessions :
    /\ lastB2C[r].state = "OPEN"
    /\ lastB2C[r].frame =
         TextFrame("spaced",
                   JObj(<<<<"id", JNum("12345678901234567890")>>,
                          <<"result", JStr(ReasonBye)>>>>))
    /\ lastB2C[r].sent = <<lastB2C[r].frame>>

\* The exact value a document spells: equal numbers are one literal.
ExactNumber(literal) ==
  CASE literal = "1.0" -> "1"
    [] OTHER -> literal

RECURSIVE Exact(_)
Exact(doc) ==
  CASE doc.t = "num" -> JNum(ExactNumber(doc.v))
    [] doc.t = "obj" ->
         JObj([i \in 1..Len(doc.v) |-> <<doc.v[i][1], Exact(doc.v[i][2])>>])
    [] OTHER -> doc

\* The document with error.message replaced and nothing else changed.
WithMessage(doc, chars) ==
  Put(doc, "error", Put(Get(doc, "error"), "message", JStr(chars)))

HasTextMessage(frame) ==
  /\ frame.type = "string"
  /\ frame.text.doc # Invalid
  /\ HasErrorMessage(frame.text.doc)
  /\ Get(Get(frame.text.doc, "error"), "message").t = "str"

\* C9: for a backend text frame with an error.message text, handled while
\* the client endpoint is open, exactly one frame is sent and it spells the
\* received message with error.message replaced by its translation for the
\* request's host and every other field unchanged.
C9_ErrorFrameRewritten ==
  \A r \in Sessions :
    (lastB2C[r].state = "OPEN" /\ HasTextMessage(lastB2C[r].frame)) =>
      LET doc == lastB2C[r].frame.text.doc
          message == Get(Get(doc, "error"), "message").v IN
      /\ Len(lastB2C[r].sent) = 1
      /\ lastB2C[r].sent[1].type = "string"
      /\ Exact(lastB2C[r].sent[1].text.doc) =
           Exact(WithMessage(doc, transformErrorMessage(message, host[r])))

\* ================================================ claims, error translator
\* The specification's table: ordered rows of phrases and output template.
TranslationTable ==
  << [phrases |-> {GatewayTokenMissing, GatewayTokenMismatch},
      before |-> InvalidTokenPrefix, after |-> InvalidTokenSuffix],
     [phrases |-> {PairingRequired},
      before |-> PairingPrefix, after |-> PairingSuffix] >>

RECURSIVE FirstMatch(_, _, _)
FirstMatch(i, message, h) ==
  IF i > Len(TranslationTable)
    THEN message
    ELSE IF \E phrase \in TranslationTable[i].phrases : Includes(message, phrase)
           THEN TranslationTable[i].before \o h \o TranslationTable[i].after
           ELSE FirstMatch(i + 1, message, h)

\* C10: transformErrorMessage answers every message, and its answer is that
\* of the ordered table, first match first: the invalid-token text for the
\* host when the message contains a token phrase (also when it contains
\* 'pairing required' as well), else the pairing text for the host, which
\* contains '/_admin/', when it contains 'pairing required', else the
\* message itself.
C10_TranslateTable ==
  xlate.done =>
    /\ xlate.result = FirstMatch(1, xlate.message, xlate.host)
    /\ (Includes(xlate.message, GatewayTokenMissing)
          \/ Includes(xlate.message, GatewayTokenMismatch))
         => xlate.result = InvalidTokenPrefix \o xlate.host \o InvalidTokenSuffix
    /\ (Includes(xlate.message, PairingRequired)
          /\ ~Includes(xlate.message, GatewayTokenMissing)
          /\ ~Includes(xlate.message, GatewayTokenMismatch))
         => /\ xlate.result = PairingPrefix \o xlate.host \o PairingSuffix
            /\ Includes(xlate.result, PairingSuffix)
    /\ (~Includes(xlate.message, PairingRequired)
          /\ ~Includes(xlate.message, GatewayTokenMissing)
          /\ ~Includes(xlate.message, GatewayTokenMismatch))
         => xlate.result = xlate.message

C10_Witness ==
  /\ xlate.done
  /\ xlate.message = PairingRequired \o <<";", " ">> \o GatewayTokenMismatch
  /\ xlate.host = HostH
  /\ xlate.result = InvalidTokenText(HostH)

\* ------------------------------------------------ the close reason's size
\* Bytes of a character in UTF-8.
Utf8Bytes(c) ==
  CASE c = EAcute -> 2
    [] c = EuroSign -> 3
    [] OTHER -> 1

RECURSIVE Utf8Length(_)
Utf8Length(chars) ==
  IF chars = <<>> THEN 0 ELSE Utf8Bytes(Head(chars)) + Utf8Length(Tail(chars))

\* C11: the reason a backend close passes to the client endpoint's close()
\* is at most 123 bytes long in UTF-8, whatever the reason and the host.
C11_ReasonWithin123Bytes ==
  closing.done => Utf8Length(closing.passed) <= 123

\* C12: on a backend close the reason is translated first; a translation
\* longer than 123 becomes its first 120 characters followed by '...', 123
\* characters in all, and one of 123 or fewer is passed as it is.
C12_TruncateAfterTranslate ==
  closing.done =>
    LET translated == FirstMatch(1, closing.reason, closing.host) IN
    IF Len(translated) > 123
      THEN /\ Len(closing.passed) = 123
           /\ SubSeq(closing.passed, 1, 120) = SubSeq(translated, 1, 120)
           /\ SubSeq(closing.passed, 121, 123) = <<".", ".", ".">>
      ELSE closing.passed = translated

\* A short reason whose translation, with a long host, had to be cut.
C12_Witness ==
  /\ closing.done
  /\ closing.reason = PairingRequired
  /\ closing.host = HostLong
  /\ Len(PairingText(HostLong)) > 123
  /\ Len(closing.passed) = 123
  /\ SubSeq(closing.passed, 1, Len(PairingPrefix)) = PairingPrefix
  /\ SubSeq(closing.passed, 121, 123) = <<".", ".", ".">>

\* ------------------------------------------------- order of the frames
\* out is made, in order, of elements of in, each used at most once.
RECURSIVE IsSubsequence(_, _)
IsSubsequence(out, in) ==
  IF out = <<>> THEN TRUE
  ELSE IF in = <<>> THEN FALSE
  ELSE IF Head(out) = Head(in)
         THEN IsSubsequence(Tail(out), Tail(in))
         ELSE IsSubsequence(out, Tail(in))

\* The frames a backend's frames stand for on the way to the client: each
\* frame as the relay hands it on (an error frame with its message replaced).
HandedOn(r) ==
  [i \in 1..Len(b2cLog[r].received) |->
     InterceptedData(b2cLog[r].received[i], host[r])]

\* C16: in each direction of a session the frames sent to the destination
\* are, in the order received, a subsequence of the frames received from the
\* source: none comes twice, none out of order, none merged with another.
C16_ForwardedInOrder ==
  \A r \in Sessions :
    /\ IsSubsequence(c2bLog[r].forwarded, c2bLog[r].received)
    /\ IsSubsequence(b2cLog[r].forwarded, HandedOn(r))

\* Two different frames each way, the second of the client's dropped.
C16_Witness ==
  /\ Len(c2bLog[1].received) = 2
  /\ c2bLog[1].received[1] # c2bLog[1].received[2]
  /\ c2bLog[1].forwarded = <<c2bLog[1].received[1]>>
  /\ Len(b2cLog[1].forwarded) = 2
  /\ b2cLog[1].forwarded[1] # b2cLog[1].forwarded[2]

C17_Step ==
  \A r \in Sessions :
    /\ c2bLog'[r] # c2bLog[r] =>
         LET frame == c2bLog'[r].received[Len(c2bLog'[r].received)] IN
         /\ c2bLog'[r].received = Append(c2bLog[r].received, frame)
         /\ c2bLog'[r].forwarded =
              IF ReadyState(containerWs[r]) = "OPEN"
                THEN Append(c2bLog[r].forwarded, frame)
                ELSE c2bLog[r].forwarded
         /\ socketVars' = socketVars
         /\ closeCalls' = closeCalls
         /\ b2cLog' = b2cLog
    /\ b2cLog'[r] # b2cLog[r] =>
         LET frame == b2cLog'[r].received[Len(b2cLog'[r].received)] IN
         /\ b2cLog'[r].received = Append(b2cLog[r].received, frame)
         /\ IF ReadyState(serverWs[r]) = "OPEN"
              THEN /\ Len(b2cLog'[r].forwarded) = Len(b2cLog[r].forwarded) + 1
                   /\ SubSeq(b2cLog'[r].forwarded, 1, Len(b2cLog[r].forwarded))
                        = b2cLog[r].forwarded
                   /\ b2cLog'[r].forwarded[Len(b2cLog'[r].forwarded)].type
                        = frame.type
              ELSE b2cLog'[r].forwarded = b2cLog[r].forwarded
         /\ socketVars' = socketVars
         /\ closeCalls' = closeCalls
         /\ c2bLog' = c2bLog

\* C17: a frame is sent on exactly when the destination endpoint is open as
\* the frame is handled; a frame handled while it is not open is dropped for
\* good, and handling a frame changes neither endpoint nor the other
\* direction.
C17_SendOnlyWhenOpen == [][C17_Step]_vars

\* A client frame dropped at a backend endpoint that is closing, after one
\* frame of each direction was sent on.
C17_Witness ==
  /\ lastC2B[1].state = "CLOSING" /\ lastC2B[1].sent = <<>>
  /\ Len(c2bLog[1].received) = 2 /\ Len(c2bLog[1].forwarded) = 1
  /\ Len(b2cLog[1].received) = 1 /\ Len(b2cLog[1].forwarded) = 1

\* ------------------------------------------------- the end of a session
\* The reason a backend close is to reach the client with: the table's
\* translation, cut to 123 characters when longer.
ExpectedClientReason(reason, h) ==
  LET translated == FirstMatch(1, reason, h) IN
  IF Len(translated) > 123
    THEN SubSeq(translated, 1, 120) \o <<".", ".", ".">>
    ELSE translated

CallsFor(r, type) ==
  {i \in 1..Len(closeCalls[r]) : closeCalls[r][i].cause.type = type}

\* C13: a close event on either endpoint closes the other endpoint with the
\* event's code: the client endpoint with the translated and truncated
\* reason, the backend endpoint with the client's reason as it came.
C13_ClosePropagated ==
  \A r \in Sessions : \A i \in CallsFor(r, "close") :
    LET call == closeCalls[r][i] IN
    /\ call.code = call.cause.code
    /\ call.on = "containerWs" => call.reason = call.cause.reason
    /\ call.on = "serverWs" =>
         call.reason = ExpectedClientReason(call.cause.reason, host[r])
    /\ ~call.raised

\* C14: whatever close and error events the two endpoints deliver, each
\* endpoint is closed by the relay exactly once: every close() is carried
\* out or finds the endpoint closed already, none raises an error, and none
\* closes an endpoint a second time.
C14_TerminatedOnce ==
  \A r \in Sessions :
    /\ \A i \in 1..Len(closeCalls[r]) : ~closeCalls[r][i].raised
    /\ \A on \in {"serverWs", "containerWs"} :
         Cardinality({i \in 1..Len(closeCalls[r]) :
                        closeCalls[r][i].on = on /\ closeCalls[r][i].effective}) <= 1

\* C15: an error event on the client endpoint closes the backend endpoint
\* with 1011 'Client error', one on the backend endpoint closes the client
\* endpoint with 1011 'Container error', whatever the event holds.
C15_ErrorClosesPeer ==
  \A r \in Sessions : \A i \in CallsFor(r, "error") :
    LET call == closeCalls[r][i] IN
    /\ call.code = 1011
    /\ ~call.raised
    /\ call.reason =
         IF call.on = "containerWs"
           THEN <<"C", "l", "i", "e", "n", "t", " ", "e", "r", "r", "o", "r">>
           ELSE <<"C", "o", "n", "t", "a", "i", "n", "e", "r", " ", "e", "r",
                  "r", "o", "r">>

\* Both error handlers have run in one session, on events that differ: the
\* first closed the open backend endpoint.
C15_Witness ==
  /\ Len(closeCalls[1]) = 2
  /\ closeCalls[1][1].on = "containerWs"
  /\ closeCalls[1][1].effective
  /\ closeCalls[1][1].cause = ErrorEvent("ECONNRESET")
  /\ closeCalls[1][2].on = "serverWs"
  /\ closeCalls[1][2].cause = ErrorEvent("Invalid frame header")
  /\ containerWs[1].closedOutgoing

Terminating(r) == closeCalls[r] # <<>>

BothClosed(r) ==
  /\ ReadyState(serverWs[r]) = "CLOSED"
  /\ ReadyState(containerWs[r]) = "CLOSED"

\* After both endpoints are closed no frame is handled, none is sent and no
\* close() has an effect.
C18_Quiet ==
  BothClosed(1) =>
    /\ lastC2B' = lastC2B
    /\ lastB2C' = lastB2C
    /\ BothClosed(1)'
    /\ serverWs'[1].closedOutgoing = serverWs[1].closedOutgoing
    /\ containerWs'[1].closedOutgoing = containerWs[1].closedOutgoing

\* C18: under fair delivery of socket events a session in which an endpoint
\* has emitted a close or an error event comes to have both endpoints
\* closed, and from then on forwards no frame and closes nothing.
C18_EventuallyClosed ==
  /\ Terminating(1) ~> BothClosed(1)
  /\ [][C18_Quiet]_vars

\* ------------------------------------------- readiness and the start
\* The lookup of request r has answered.
Looked(r) == "lookup" \in did[r] /\ pc[r] # "lookup"

FoundRunning(r) ==
  /\ existingProcess[r] # None
  /\ existingProcess[r][1].status = "running"

StartsOf(r) ==
  {a \in 1..Len(attempts) : attempts[a].owner = r /\ attempts[a].starts > 0}

C19_Inv ==
  \A r \in Sessions :
    Looked(r) =>
      IF FoundRunning(r)
        THEN /\ "ensure" \notin did[r]
             /\ joined[r] = 0
             /\ StartsOf(r) = {}
             /\ "wsConnect" \in did[r]
        ELSE /\ "ensure" \in did[r]
             /\ joined[r] # 0
             /\ "wsConnect" \in did[r] =>
                  /\ attempts[joined[r]].result # Pending
                  /\ attempts[joined[r]].result[1].ok

C19_Step ==
  \A r \in Sessions :
    /\ ("wsConnect" \in did'[r] /\ "wsConnect" \notin did[r] /\ ~FoundRunning(r)')
         => "ensure" \in did[r]
    /\ (Looked(r)' /\ ~Looked(r) /\ FoundRunning(r)')
         => /\ pc'[r] = "wsConnect"
            /\ procs' = procs
            /\ attempts' = attempts

\* C19: a request whose lookup finds a running process calls neither
\* ensureRunning nor start and goes straight to the backend connection; a
\* request whose lookup finds no process, or one starting, completed or
\* failed, calls ensureRunning, and asks for the backend connection only
\* after ensureRunning has returned.
C19_FastPathOnlyWhenRunning == []C19_Inv /\ [][C19_Step]_vars

\* The first request found nothing and went through ensureRunning, the
\* second found the process running and went straight on; both relay.
C19_Witness ==
  /\ Looked(1) /\ existingProcess[1] = None
  /\ "ensure" \in did[1] /\ pc[1] = "relaying"
  /\ Looked(2) /\ FoundRunning(2)
  /\ "ensure" \notin did[2] /\ pc[2] = "relaying"

C20_Inv ==
  \A a \in 1..Len(attempts) :
    attempts[a].result # Pending =>
      LET outcome == attempts[a].result[1] IN
      /\ outcome.ok => outcome.status = "running"
      /\ (~outcome.ok /\ attempts[a].proc # 0) =>
           /\ outcome.status \in {"starting", "failed", "completed"}
           /\ outcome.error.message = "GatewayStartError: process " \o outcome.status
           /\ outcome.error.details =
                [stdout |-> <<"stdout", attempts[a].proc>>,
                 stderr |-> <<"stderr", attempts[a].proc>>]

C20_Step ==
  \A a \in 1..Len(attempts) :
    (attempts[a].result = Pending /\ attempts'[a].result # Pending
       /\ attempts[a].proc # 0) =>
      LET outcome == attempts'[a].result[1]
          owner == attempts[a].owner IN
      /\ outcome.ok <=> procs[attempts[a].proc] = "running"
      /\ outcome.status = procs[attempts[a].proc]
      /\ polls'[owner] <= MaxAttempts
      /\ outcome.status = "starting" => polls'[owner] = MaxAttempts

\* C20: ensureRunning returns the handle only when the process it started
\* is read as running within the bounded wait; when the process has failed,
\* or is still starting as the wait runs out, it raises GatewayStartError
\* with the process's captured stdout and stderr.
C20_HandleOnlyWhenRunning == []C20_Inv /\ [][C20_Step]_vars

\* One start gave up on a process still starting after MaxAttempts polls, a
\* later one returned the handle of a running process.
C20_Witness ==
  /\ Len(attempts) = 2
  /\ attempts[1].result # Pending /\ attempts[2].result # Pending
  /\ ~attempts[1].result[1].ok
  /\ attempts[1].result[1].status = "starting"
  /\ attempts[1].result[1].error.details = logs(1)
  /\ polls[attempts[1].owner] = MaxAttempts
  /\ attempts[2].result[1].ok
  /\ attempts[2].proc = 2 /\ procs[2] = "running"

\* ------------------------------------------------- the bounded wait
\* The polls a wait of max attempts may make.
PollLimit(max) == IF max.nan \/ max.n < 0 THEN 0 ELSE max.n

C21_Inv ==
  /\ wait.polls <= PollLimit(wait.maxAttempts)
  /\ wait.elapsed = wait.polls * wait.interval
  /\ (wait.pc = "done" /\ wait.response.status = 200) =>
       wait.response.body.status = wait.status

C21_Step ==
  /\ (wait.pc = "loop" /\ wait'.pc # "loop") =>
       /\ wait'.pc = "logs"
       /\ wait'.response = NoResponse
       /\ wait'.observed = wait.status
       /\ \/ wait'.observed \notin {"running", "starting"}
          \/ wait'.polls = PollLimit(wait.maxAttempts)
  /\ (wait.pc = "loop" /\ wait'.pc = "loop" /\ wait'.polls # wait.polls) =>
       /\ wait'.polls = wait.polls + 1
       /\ wait'.observed \in {"running", "starting"}

\* C21: the wait reads the status once per interval, goes on while the
\* status read is running or starting and attempts are left, makes at most
\* maxAttempts polls, and on exhaustion hands the last status to the caller
\* without raising.
C21_BoundedWait == []C21_Inv /\ [][C21_Step]_vars

\* ------------------------------------------------- sessions are apart
\* All that belongs to the session of request r: its endpoints, listeners,
\* the frames it handled and sent, the closes it made, its host and answer.
SessionState(r) ==
  <<serverWs[r], containerWs[r], listeners[r], lastC2B[r], lastB2C[r],
    closeCalls[r], c2bLog[r], b2cLog[r], host[r], response[r], pc[r]>>

\* A frame, a close event or an error event of session r is handled.
RelayEvent(r) ==
  /\ pc[r] = "relaying"
  /\ <<serverWs[r], containerWs[r], lastC2B[r], lastB2C[r], closeCalls[r]>>'
       # <<serverWs[r], containerWs[r], lastC2B[r], lastB2C[r], closeCalls[r]>>

C22_Step ==
  \A r \in Sessions : \A q \in Sessions \ {r} :
    /\ RelayEvent(r) =>
         /\ SessionState(q)' = SessionState(q)
         /\ gatewayVars' = gatewayVars
    /\ (SessionState(r)' # SessionState(r)) => SessionState(q)' = SessionState(q)

\* C22: with two sessions at once, handling a frame, a close event or an
\* error event of one session sends nothing and closes nothing on the other
\* session's endpoints and changes nothing of the other session; a step
\* changes one session at most.
C22_SessionsApart == [][C22_Step]_vars

\* Session 1 has ended on a client error followed by its close; session 2,
\* relaying beside it, has both endpoints open and has sent on a frame each
\* way at endpoints found open.
C22_Witness ==
  /\ pc[1] = "relaying" /\ pc[2] = "relaying"
  /\ serverWs[1].errored
  /\ Len(closeCalls[1]) = 2
  /\ lastB2C[1].state = "CLOSED" /\ lastB2C[1].sent = <<>>
  /\ closeCalls[2] = <<>>
  /\ ReadyState(serverWs[2]) = "OPEN" /\ ReadyState(containerWs[2]) = "OPEN"
  /\ lastC2B[2].sent # <<>> /\ lastB2C[2].sent # <<>>
====
